---- MODULE Spec2Model ----
(***************************************************************************)
(* The command dispatcher of oracle/client.py (class Client) and the       *)
(* helper get_default of oracle/utilities.py.                              *)
(*                                                                         *)
(* Text (message content, aliases, action names, role names) is a sequence *)
(* of one-character strings, so that lower(), startswith(), split() and    *)
(* the camel-case substitution are computed and not assumed.               *)
(* A Python value that may be None is a sequence of length 0 (None) or 1.  *)
(***************************************************************************)
EXTENDS Integers, Sequences, FiniteSets, TLC

\* ------------------------------------------------------------------ bounds
\* number of on_message tasks (one per incoming message)
MaxTasks == 2

Tasks == 1..MaxTasks

\* ------------------------------------------------------------------- text
UpperLetters == <<"A","B","C","D","E","F","G","H","I","J","K","L","M",
                  "N","O","P","Q","R","S","T","U","V","W","X","Y","Z">>
LowerLetters == <<"a","b","c","d","e","f","g","h","i","j","k","l","m",
                  "n","o","p","q","r","s","t","u","v","w","x","y","z">>

\* [A-Z]
UpperSet == {UpperLetters[i] : i \in DOMAIN UpperLetters}
ToLower ==
    [c \in UpperSet |->
        LowerLetters[CHOOSE i \in DOMAIN UpperLetters : UpperLetters[i] = c]]

IsUpper(c) == c \in UpperSet

LowerChar(c) == IF IsUpper(c) THEN ToLower[c] ELSE c

IsSpace(c) == c \in {" ", "\t", "\n"}

RECURSIVE str_lower(_)
str_lower(s) ==
    IF s = <<>> THEN <<>> ELSE <<LowerChar(Head(s))>> \o str_lower(Tail(s))

str_startswith(s, p) == Len(s) >= Len(p) /\ SubSeq(s, 1, Len(p)) = p

str_removeprefix(s, p) ==
    IF str_startswith(s, p) THEN SubSeq(s, Len(p) + 1, Len(s)) ELSE s

RECURSIVE WordLen(_)
WordLen(s) ==
    IF s = <<>> \/ IsSpace(Head(s)) THEN 0 ELSE 1 + WordLen(Tail(s))

\* str.split() with no separator: runs of whitespace separate, no empty words
RECURSIVE str_split(_)
str_split(s) ==
    IF s = <<>> THEN <<>>
    ELSE IF IsSpace(Head(s)) THEN str_split(Tail(s))
    ELSE <<SubSeq(s, 1, WordLen(s))>> \o str_split(SubSeq(s, WordLen(s) + 1, Len(s)))

\* ------------------------------------------------------ Python conventions
None == <<>>
Some(v) == <<v>>
IsNone(o) == o = <<>>

\* the outcome of a call that may raise
OK == "ok"
RAISE == "raise"

\* return values of the action handlers: True, False or None (bare return)
PyTrue == "True"
PyFalse == "False"
PyNone == "None"
Truthy(v) == v = PyTrue

\* any() where all() is meant
PyAny(statuses) == \E i \in DOMAIN statuses : Truthy(statuses[i])

\* all(s for s in statuses)
PyAll(statuses) == \A i \in DOMAIN statuses : Truthy(statuses[i])

\* --------------------------------------------------------------- utilities
\* get_default(*items): with one item the body evaluates items.get(...) on
\* the tuple of item names, which has no attribute get, so the call raises
\* before any getter is built; with two or more items it returns a getter.
get_default(items) == IF Len(items) = 1 THEN RAISE ELSE OK

\* ------------------------------------------------------------------- data
\* text constants
Prefix == <<"?">>
t_ping == <<"p","i","n","g">>
t_Ping == <<"P","i","n","g">>
t_secret == <<"s","e","c","r","e","t">>
t_reload == <<"r","e","l","o","a","d">>
t_lock == <<"l","o","c","k">>
t_stop == <<"s","t","o","p">>
t_multi == <<"m","u","l","t","i">>
t_bogus == <<"b","o","g","u","s">>
t_nope == <<"n","o","p","e">>
t_staff == <<"s","t","a","f","f">>
t_lockdown == <<"l","o","c","k","d","o","w","n">>
t_shutdown == <<"s","h","u","t","d","o","w","n">>
t_fooBar == <<"f","o","o","B","a","r">>
t_createChannelInCategory ==
    <<"c","r","e","a","t","e","C","h","a","n","n","e","l",
      "I","n","C","a","t","e","g","o","r","y">>
t_general == <<"g","e","n","e","r","a","l">>
t_temp == <<"t","e","m","p">>
t_lobby == <<"l","o","b","b","y">>
t_guild == <<"g","u","i","l","d">>
t_category == <<"c","a","t","e","g","o","r","y">>
t_channel == <<"c","h","a","n","n","e","l">>
t_server == <<"s","e","r","v","e","r">>
t_action_ == <<"a","c","t","i","o","n","_">>

\* A PolicyNode as json.load gives it: a dict whose keys may be absent.
Node(a, o, n, ty, sc, cm, nm) ==
    [and |-> a, or |-> o, not |-> n, type |-> ty, scope |-> sc, cmp |-> cm, name |-> nm]
EmptyDict == Node(None, None, None, None, None, None, None)
RoleLeaf(cm, nm) == Node(None, None, None, Some("role"), None, Some(cm), Some(nm))
LocationLeaf(sc, cm, nm) ==
    Node(None, None, None, Some("location"), Some(sc), Some(cm), Some(nm))
AndNode(children) == Node(Some(children), None, None, None, None, None, None)
OrNode(children) == Node(None, Some(children), None, None, None, None, None)
NotNode(children) == Node(None, None, Some(children), None, None, None, None)

\* an ActionInvocation {"name": ..., "args": ...}
Action(nm, args) == [name |-> nm, args |-> args]
ChannelArgs(nm, dup, sort) == Some([name |-> nm, duplicate |-> dup, sort_category |-> sort])

\* a CommandDefinition {"aliases", "resolve", "response", "actions"}
Command(aliases, resolve, content, actions) ==
    [aliases |-> aliases, resolve |-> resolve,
     response |-> [type |-> "simple", attachments |-> None, content |-> content],
     actions |-> actions]

StaffOnly == RoleLeaf("equals", t_staff)

PingCmd == Command(<<t_ping>>, None, "pong", None)
PingStaffCmd == Command(<<t_ping>>, Some(StaffOnly), "pong-staff", None)
PingDupCmd == Command(<<t_Ping>>, None, "pong-again", None)
SecretCmd == Command(<<t_secret>>, Some(StaffOnly), "classified", Some(<<>>))
ReloadCmd == Command(<<t_reload>>, None, "reloaded", Some(<<Action(t_reload, None)>>))
ReloadLockCmd ==
    Command(<<t_reload>>, None, "locked",
            Some(<<Action(t_lockdown, None), Action(t_reload, None)>>))
LockCmd == Command(<<t_lock>>, None, "locked", Some(<<Action(t_lockdown, None)>>))
StopCmd ==
    Command(<<t_stop>>, None, "bye",
            Some(<<Action(t_shutdown, None), Action(t_reload, None)>>))
MultiCmd ==
    Command(<<t_multi>>, None, "made",
            Some(<<Action(t_createChannelInCategory, ChannelArgs(t_temp, FALSE, TRUE)),
                   Action(t_reload, None)>>))
BogusCmd ==
    Command(<<t_bogus>>, None, "hm",
            Some(<<Action(t_reload, None), Action(t_fooBar, None), Action(t_reload, None)>>))

\* The definition source: the cmd-*.json files under command_path, as the
\* sequence of definitions the scan meets.
SrcPing == <<PingCmd>>
SrcSecret == <<SecretCmd>>
SrcAmbiguous == <<PingCmd, PingStaffCmd>>
SrcAdmin == <<PingCmd, SecretCmd, ReloadCmd, LockCmd, StopCmd, MultiCmd, BogusCmd>>
SrcReloadOnly == <<ReloadLockCmd>>
SrcCollision == <<ReloadCmd, PingCmd, PingDupCmd>>
Sources == {SrcPing, SrcSecret, SrcAmbiguous, SrcAdmin, SrcReloadOnly, SrcCollision}
\* the sources whose definitions carry actions
ActSources == {SrcAdmin, SrcReloadOnly, SrcCollision}

\* configure_options(administrators=...): author ids
AdminId == "id-admin"
UserId == "id-user"
Administrators == {AdminId}

\* --------------------------------------------------------- PolicyResolver
\* results of the resolver: "true", "false", or RAISE
Yes == "true"
No == "false"
Bool(b) == IF b THEN Yes ELSE No

\* truth value of a dict entry that holds a list: None and [] are falsy
ListTruthy(o) == ~IsNone(o) /\ o[1] # <<>>

\* re.search(pattern, string) for patterns made of literal characters, ".",
\* a leading "^", a trailing "$" and plain groups; a pattern whose
\* parentheses do not balance does not compile (re.error).
RECURSIVE ParenDepthOk(_, _)
ParenDepthOk(p, depth) ==
    IF p = <<>> THEN depth = 0
    ELSE IF Head(p) = "(" THEN ParenDepthOk(Tail(p), depth + 1)
    ELSE IF Head(p) = ")" THEN depth > 0 /\ ParenDepthOk(Tail(p), depth - 1)
    ELSE ParenDepthOk(Tail(p), depth)

RECURSIVE MatchHere(_, _)
MatchHere(p, s) ==
    IF p = <<>> THEN TRUE
    ELSE IF Head(p) \in {"(", ")"} THEN MatchHere(Tail(p), s)
    ELSE IF p = <<"$">> THEN s = <<>>
    ELSE /\ s # <<>>
         /\ (Head(p) = "." /\ Head(s) # "\n") \/ Head(p) = Head(s)
         /\ MatchHere(Tail(p), Tail(s))

re_search(p, s) ==
    IF IsNone(p) \/ ~ParenDepthOk(p[1], 0) THEN RAISE
    ELSE IF p[1] # <<>> /\ Head(p[1]) = "^" THEN Bool(MatchHere(Tail(p[1]), s))
    ELSE Bool(\E i \in 0..Len(s) : MatchHere(p[1], SubSeq(s, i + 1, Len(s))))

\* context.channel.category / context.channel / context.channel.guild
LocationOf(context, location_type) ==
    CASE location_type = "channel.category" -> context.category
      [] location_type = "channel" -> Some(context.channel)
      [] location_type = "channel.guild" -> context.guild

cmd_resolve_block_location(context, resolve) ==
    IF IsNone(resolve.scope) THEN RAISE            \* None.lower()
    ELSE LET scope == str_lower(resolve.scope[1])
             location_type ==
                 IF scope = t_category THEN Some("channel.category")
                 ELSE IF scope = t_channel THEN Some("channel")
                 ELSE IF scope = t_server THEN Some("channel.guild")
                 ELSE None
         IN IF IsNone(location_type) THEN No
            ELSE LET located == LocationOf(context, location_type[1])
                 IN IF IsNone(located) THEN RAISE  \* None.name
                    ELSE LET actual_scope == located[1]
                         IN IF resolve.cmp \in {Some("equals"), Some("exact"), Some("is")}
                            THEN Bool(resolve.name = Some(actual_scope))
                            ELSE IF resolve.cmp \in {Some("expr"), Some("like"), Some("regex")}
                            THEN (IF re_search(resolve.name, actual_scope) = RAISE
                                  THEN No ELSE re_search(resolve.name, actual_scope))
                            ELSE No

\* cmd_resolve_block_role comparing role names without regard to case
cmd_resolve_block_role_nocase(context, resolve) ==
    IF resolve.cmp \in {Some("equals"), Some("exact"), Some("is")}
    THEN Bool(~IsNone(resolve.name) /\
              \E r \in context.roles : str_lower(r) = str_lower(resolve.name[1]))
    ELSE IF resolve.cmp \in {Some("expr"), Some("like"), Some("regex")}
    THEN (IF \E r \in context.roles : re_search(resolve.name, r) = RAISE
          THEN No
          ELSE Bool(\E r \in context.roles : re_search(resolve.name, r) = Yes))
    ELSE No

cmd_resolve_block_role(context, resolve) ==
    IF resolve.cmp \in {Some("equals"), Some("exact"), Some("is")}
    THEN Bool(\E r \in context.roles : Some(r) = resolve.name)
    ELSE IF resolve.cmp \in {Some("expr"), Some("like"), Some("regex")}
    THEN (IF \E r \in context.roles : re_search(resolve.name, r) = RAISE
          THEN No
          ELSE Bool(\E r \in context.roles : re_search(resolve.name, r) = Yes))
    ELSE No

RECURSIVE cmd_resolve_recursive(_, _), ResolveAll(_, _), ResolveAny(_, _)

\* all(self.cmd_resolve_recursive(context, r) for r in resolve)
ResolveAll(context, list) ==
    IF list = <<>> THEN Yes
    ELSE LET r == cmd_resolve_recursive(context, Head(list))
         IN IF r = Yes THEN ResolveAll(context, Tail(list)) ELSE r

\* any(self.cmd_resolve_recursive(context, r) for r in resolve)
ResolveAny(context, list) ==
    IF list = <<>> THEN No
    ELSE LET r == cmd_resolve_recursive(context, Head(list))
         IN IF r = No THEN ResolveAny(context, Tail(list)) ELSE r

\* the list branch of cmd_resolve_recursive (resolve is a list, op is given)
ResolveList(context, list, op) ==
    CASE op = "and" -> ResolveAll(context, list)
      [] op = "or" -> ResolveAny(context, list)
      [] op = "not" -> LET r == ResolveAny(context, list)
                       IN IF r = RAISE THEN RAISE ELSE Bool(r = No)
      [] OTHER -> No

\* the dict branch of cmd_resolve_recursive
cmd_resolve_recursive(context, resolve) ==
    LET results == {k \in {"and", "or", "not"} : ListTruthy(resolve[k])}
    IN IF Cardinality(results) = 1
       THEN (IF ListTruthy(resolve.and) THEN ResolveList(context, resolve.and[1], "and")
             ELSE IF ListTruthy(resolve.or) THEN ResolveList(context, resolve.or[1], "or")
             ELSE ResolveList(context, resolve.not[1], "not"))
       ELSE IF Cardinality(results) > 1 THEN No
       ELSE IF get_default(<<"type">>) = RAISE THEN RAISE
       ELSE IF resolve.type = Some("location") THEN cmd_resolve_block_location(context, resolve)
       ELSE IF resolve.type = Some("role") THEN cmd_resolve_block_role(context, resolve)
       ELSE No

cmd_resolve_context(context, candidate) ==
    IF get_default(<<"resolve">>) = RAISE THEN RAISE
    ELSE IF IsNone(candidate.resolve) \/ candidate.resolve[1] = EmptyDict THEN Yes
    ELSE cmd_resolve_recursive(context, candidate.resolve[1])

\* -------------------------------------------------------- CommandRegistry
EmptyTable == <<>>

\* the inner loop body comparing whole definitions where the code compares
\* their resolve trees
AddAliasWholeConfig(lib, alias0, config) ==
    LET alias == str_lower(alias0)
    IN IF alias \notin DOMAIN lib.table
       THEN [lib EXCEPT !.table = lib.table @@ (alias :> <<config>>)]
       ELSE IF ~ \E i \in DOMAIN lib.table[alias] : lib.table[alias][i] = config
            THEN [lib EXCEPT !.table[alias] = Append(@, config)]
            ELSE [lib EXCEPT !.collision = TRUE]

\* the inner loop body appending the colliding definition as well
AddAliasAppendAlways(lib, alias0, config) ==
    LET alias == str_lower(alias0)
    IN IF alias \notin DOMAIN lib.table
       THEN [lib EXCEPT !.table = lib.table @@ (alias :> <<config>>)]
       ELSE IF ~ \E i \in DOMAIN lib.table[alias] :
                    lib.table[alias][i].resolve = config.resolve
            THEN [lib EXCEPT !.table[alias] = Append(@, config)]
            ELSE [lib EXCEPT !.table[alias] = Append(@, config), !.collision = TRUE]

\* one pass of the inner loop body of create_command_library (lines 439-464)
AddAlias(lib, alias0, config) ==
    LET alias == str_lower(alias0)
    IN IF alias \notin DOMAIN lib.table
       THEN [lib EXCEPT !.table = lib.table @@ (alias :> <<config>>)]
       ELSE IF ~ \E i \in DOMAIN lib.table[alias] :
                    lib.table[alias][i].resolve = config.resolve
            THEN [lib EXCEPT !.table[alias] = Append(@, config)]
            ELSE [lib EXCEPT !.collision = TRUE]

RECURSIVE AddAliases(_, _, _)
AddAliases(lib, aliases, config) ==
    IF aliases = <<>> THEN lib
    ELSE AddAliases(AddAlias(lib, Head(aliases), config), Tail(aliases), config)

RECURSIVE AddConfigs(_, _)
AddConfigs(lib, configs) ==
    IF configs = <<>> THEN lib
    ELSE AddConfigs(AddAliases(lib, Head(configs).aliases, Head(configs)), Tail(configs))

\* create_command_library: self.command_lists is reset to {} and refilled;
\* the collision flag only chooses which message is logged.
create_command_library(src) ==
    AddConfigs([table |-> EmptyTable, collision |-> FALSE], src)

\* the result of a scan, for each state of the definition source
Scan == [src \in Sources |-> create_command_library(src)]

\* --------------------------------------------------------- ActionExecutor
\* camel_case_pattern.sub("_", s): an underscore before every capital that
\* is not the first character
RECURSIVE CamelSub(_, _)
CamelSub(s, first) ==
    IF s = <<>> THEN <<>>
    ELSE (IF ~first /\ IsUpper(Head(s)) THEN <<"_", Head(s)>> ELSE <<Head(s)>>)
         \o CamelSub(Tail(s), FALSE)

cmd_translate_action_key(action_key) ==
    t_action_ \o str_lower(CamelSub(action_key, TRUE))

\* the action_* attributes of Client
h_no_permission == t_action_ \o <<"_","n","o","_","p","e","r","m","i","s","s","i","o","n">>
h_no_such_action ==
    t_action_ \o <<"_","n","o","_","s","u","c","h","_","a","c","t","i","o","n">>
h_create_channel_in_category ==
    t_action_ \o <<"c","r","e","a","t","e","_","c","h","a","n","n","e","l","_",
                   "i","n","_","c","a","t","e","g","o","r","y">>
h_lockdown == t_action_ \o t_lockdown
h_shutdown == t_action_ \o t_shutdown
h_reload == t_action_ \o t_reload
ActionHandlers ==
    {h_no_permission, h_no_such_action, h_create_channel_in_category,
     h_lockdown, h_shutdown, h_reload}

\* events a task leaves behind, in order
Handler(name, status) == [kind |-> "handler", what |-> name, arg |-> status]
Send(what, content) == [kind |-> "send", what |-> what, arg |-> content]
Raised(error) == [kind |-> "raise", what |-> error, arg |-> ""]
Closed == [kind |-> "close", what |-> "", arg |-> ""]
Deleted == [kind |-> "delete", what |-> "", arg |-> ""]

\* What a handler does: its return value (or RAISE), what it sends, the
\* shared state it leaves, and whether it awaited I/O.
Outcome(status, events, table, isClosed, chans, awaited) ==
    [status |-> status, events |-> events, table |-> table, closed |-> isClosed,
     channels |-> chans, awaited |-> awaited, scanned |-> FALSE]

Denial == Send("denial", ":x: You do not have the necessary permissions.")

action__no_permission(table, isClosed, chans) ==
    Outcome(PyFalse, <<Denial>>, table, isClosed, chans, TRUE)

action__no_such_action(table, isClosed, chans) ==
    Outcome(PyFalse, <<>>, table, isClosed, chans, FALSE)

\* the administrator gate of lockdown, shutdown and reload: the denial is
\* sent, its False is dropped, and the handler returns None
Denied(table, isClosed, chans) ==
    [action__no_permission(table, isClosed, chans) EXCEPT !.status = PyNone]

\* for k in self.command_lists: if k != "reload": self.command_lists.remove(k)
\* a dict has no remove: the first other alias raises AttributeError
action_lockdown(msg, table, isClosed, chans) ==
    IF msg.author \notin Administrators THEN Denied(table, isClosed, chans)
    ELSE IF \E k \in DOMAIN table : k # t_reload
    THEN Outcome(RAISE, <<>>, table, isClosed, chans, FALSE)
    ELSE Outcome(PyTrue, <<>>, table, isClosed, chans, FALSE)

action_shutdown(msg, table, isClosed, chans) ==
    IF msg.author \notin Administrators THEN Denied(table, isClosed, chans)
    ELSE Outcome(PyTrue, <<Closed>>, table, TRUE, chans, TRUE)

\* action_reload without the administrator gate
action_reload_ungated(msg, src, table, isClosed, chans) ==
    [Outcome(PyTrue, <<>>, Scan[src].table, isClosed, chans, FALSE)
        EXCEPT !.scanned = TRUE]

action_reload(msg, src, table, isClosed, chans) ==
    IF msg.author \notin Administrators THEN Denied(table, isClosed, chans)
    ELSE [Outcome(PyTrue, <<>>, Scan[src].table, isClosed, chans, FALSE)
             EXCEPT !.scanned = TRUE]

\* sorted(channels, key=name)
RECURSIVE TextLess(_, _)
TextLess(a, b) ==
    LET rank(c) == CHOOSE i \in DOMAIN LowerLetters : LowerLetters[i] = c
    IN IF b = <<>> THEN FALSE
       ELSE IF a = <<>> THEN TRUE
       ELSE IF Head(a) = Head(b) THEN TextLess(Tail(a), Tail(b))
       ELSE rank(Head(a)) < rank(Head(b))

action_create_channel_in_category(msg, args, table, isClosed, chans) ==
    IF IsNone(msg.category) THEN Outcome(PyNone, <<>>, table, isClosed, chans, FALSE)
    ELSE IF IsNone(args) THEN Outcome(RAISE, <<>>, table, isClosed, chans, FALSE)
    ELSE IF args[1].duplicate /\ \E k \in DOMAIN chans : chans[k] = args[1].name
    THEN Outcome(PyNone, <<>>, table, isClosed, chans, FALSE)
    ELSE IF ~args[1].sort_category
    THEN Outcome(PyNone, <<>>, table, isClosed, Append(chans, args[1].name), TRUE)
    ELSE Outcome(PyTrue, <<>>, table, isClosed,
                 SortSeq(Append(chans, args[1].name), LAMBDA a, b : TextLess(a, b)), TRUE)

\* getattr(self, function_name, "action__no_such_action")(action_key, msg, args):
\* the fallback is a string, and calling it raises TypeError
CallHandler(function_name, msg, args, src, table, isClosed, chans) ==
    IF function_name = h_reload THEN action_reload(msg, src, table, isClosed, chans)
    ELSE IF function_name = h_lockdown THEN action_lockdown(msg, table, isClosed, chans)
    ELSE IF function_name = h_shutdown THEN action_shutdown(msg, table, isClosed, chans)
    ELSE IF function_name = h_create_channel_in_category
    THEN action_create_channel_in_category(msg, args, table, isClosed, chans)
    ELSE IF function_name = h_no_permission THEN action__no_permission(table, isClosed, chans)
    ELSE IF function_name = h_no_such_action THEN action__no_such_action(table, isClosed, chans)
    ELSE Outcome(RAISE, <<>>, table, isClosed, chans, FALSE)

\* a truthy action list
HasActions(actions) == ~IsNone(actions) /\ actions[1] # <<>>

\* cmd_send_response for a response without attachments
cmd_send_response(response) ==
    IF response.type = "simple" THEN Send("response", response.content)
    ELSE Send("embed", response.content)

\* ------------------------------------------------------------- Dispatcher
\* incoming messages: the issuer (author id and role names) and the location
Msg(guild, category, author, roles, content) ==
    [guild |-> guild, channel |-> t_lobby, category |-> category,
     author |-> author, roles |-> roles, content |-> content]

Contents ==
    { Prefix \o t_ping,
      Prefix \o <<"P","I","N","G"," ","n","o","w">>,
      t_ping,
      Prefix,
      Prefix \o <<" ">>,
      Prefix \o t_nope,
      Prefix \o t_secret,
      Prefix \o t_reload }

Issuers ==
    { [author |-> AdminId, roles |-> {}],
      [author |-> UserId, roles |-> {}],
      [author |-> UserId, roles |-> {t_staff}] }

Messages ==
    { Msg(Some(t_guild), Some(t_general), who.author, who.roles, c) :
          who \in Issuers, c \in Contents }
    \cup { Msg(None, None, UserId, {}, Prefix \o t_ping) }

ActMessages ==
    { Msg(Some(t_guild), Some(t_general), who, {}, Prefix \o c) :
          who \in {AdminId, UserId}, c \in {t_reload, t_lock, t_stop, t_multi} }
    \cup { Msg(Some(t_guild), Some(t_general), UserId, {}, Prefix \o c) :
          c \in {t_ping, t_bogus} }
    \cup { Msg(Some(t_guild), Some(t_general), UserId, {t_staff}, Prefix \o t_secret),
           Msg(Some(t_guild), None, AdminId, {}, Prefix \o t_multi) }

VARIABLES
    command_lists,  \* self.command_lists: alias -> list of definitions
    source,         \* the definitions the last scan of command_path read
    closed,         \* whether self.close() has been called
    channels,       \* names of the channels of the category, in position order
    running,        \* the task that holds the event loop (0: none)
    task,           \* per on_message task: its position and locals
    call,           \* the synchronous call in progress or just returned
    locked          \* history: an administrator's lockdown has run and no
                    \* administrator's reload has completed since

vars == <<command_lists, source, closed, channels, running, task, call, locked>>

\* no call is being observed
NoCall == [fn |-> "none"]

Idle ==
    [pc |-> "idle", message |-> None, cmd |-> None, exec_config |-> None,
     i |-> 0, statuses |-> <<>>, trace |-> <<>>]

\* a scheduler that lets any task run at any moment
MayRunAnytime(d) == running \in {0} \cup Tasks

\* the event loop runs one task at a time; a task keeps it until it awaits
\* I/O or ends
MayRun(d) == running \in {0, d}

cmd_array(message) ==
    str_split(str_removeprefix(str_lower(message.content), Prefix))

\* cmd_find_correct (lines 205-220): every candidate is resolved, in order
cmd_find_correct(msg, candidates) ==
    LET valid_candidates ==
            SelectSeq(candidates, LAMBDA c : cmd_resolve_context(msg, c) = Yes)
    IN IF \E k \in DOMAIN candidates : cmd_resolve_context(msg, candidates[k]) = RAISE
       THEN [outcome |-> RAISE, config |-> None]
       ELSE IF Len(valid_candidates) = 0 THEN [outcome |-> OK, config |-> None]
       ELSE IF Len(valid_candidates) = 1
       THEN [outcome |-> OK, config |-> Some(valid_candidates[1])]
       \* msg.send: a Message has no send (the client sends with
       \* msg.channel.send everywhere else), so the notice raises
       ELSE [outcome |-> RAISE, config |-> None]

\* discord dispatches the message event: a task for on_message is scheduled
Receive(d, m) ==
    /\ task[d].pc = "idle"
    /\ task' = [task EXCEPT ![d] = [Idle EXCEPT !.pc = "start", !.message = Some(m)]]
    /\ UNCHANGED <<command_lists, source, closed, channels, running, call, locked>>

\* on_message with message.delete() moved up to the alias lookup
OnMessageDeleteOnLookup(d) ==
    /\ task[d].pc = "start"
    /\ MayRun(d)
    /\ LET message == task[d].message[1]
           words == cmd_array(message)
       IN IF IsNone(message.guild) THEN
              /\ task' = [task EXCEPT ![d].pc = "returned"]
              /\ running' = 0
          ELSE IF ~str_startswith(str_lower(message.content), Prefix) THEN
              /\ task' = [task EXCEPT ![d].pc = "returned"]
              /\ running' = 0
          ELSE IF words = <<>> THEN     \* cmd_array[0]: IndexError
              /\ task' = [task EXCEPT ![d].pc = "aborted",
                                      ![d].trace = Append(@, Raised("IndexError"))]
              /\ running' = 0
          ELSE IF words[1] \notin DOMAIN command_lists THEN
              /\ task' = [task EXCEPT ![d].pc = "returned", ![d].cmd = Some(words[1])]
              /\ running' = 0
          ELSE
              /\ task' = [task EXCEPT ![d].pc = "find", ![d].cmd = Some(words[1]),
                                      ![d].trace = Append(@, Deleted)]
              /\ running' = d
    /\ UNCHANGED <<command_lists, source, closed, channels, call, locked>>

\* on_message, lines 489-507: parse and look the alias up
OnMessage(d) ==
    /\ task[d].pc = "start"
    /\ MayRun(d)
    /\ LET message == task[d].message[1]
           words == cmd_array(message)
       IN IF IsNone(message.guild) THEN
              /\ task' = [task EXCEPT ![d].pc = "returned"]
              /\ running' = 0
          ELSE IF ~str_startswith(str_lower(message.content), Prefix) THEN
              /\ task' = [task EXCEPT ![d].pc = "returned"]
              /\ running' = 0
          ELSE IF words = <<>> THEN     \* cmd_array[0]: IndexError
              /\ task' = [task EXCEPT ![d].pc = "aborted",
                                      ![d].trace = Append(@, Raised("IndexError"))]
              /\ running' = 0
          ELSE IF words[1] \notin DOMAIN command_lists THEN
              /\ task' = [task EXCEPT ![d].pc = "returned", ![d].cmd = Some(words[1])]
              /\ running' = 0
          ELSE
              /\ task' = [task EXCEPT ![d].pc = "find", ![d].cmd = Some(words[1])]
              /\ running' = d
    /\ UNCHANGED <<command_lists, source, closed, channels, call, locked>>

\* on_message, lines 509-513
FindCorrect(d) ==
    /\ task[d].pc = "find"
    /\ MayRun(d)
    /\ LET found == cmd_find_correct(task[d].message[1], command_lists[task[d].cmd[1]])
       IN IF found.outcome = RAISE THEN
              /\ task' = [task EXCEPT ![d].pc = "aborted",
                                      ![d].trace = Append(@, Raised("AttributeError"))]
              /\ running' = 0
          ELSE IF IsNone(found.config) THEN
              /\ task' = [task EXCEPT ![d].pc = "returned"]
              /\ running' = 0
          ELSE
              /\ task' = [task EXCEPT ![d].pc = "resolved", ![d].exec_config = found.config]
              /\ running' = d
    /\ UNCHANGED <<command_lists, source, closed, channels, call, locked>>

\* __init__: configure_options, then create_command_library
Init ==
    /\ source \in Sources
    /\ command_lists = Scan[source].table
    /\ closed = FALSE
    /\ channels = <<t_lobby>>
    /\ running = 0
    /\ task = [d \in Tasks |-> Idle]
    /\ call = NoCall
    /\ locked = FALSE

Next ==
    \E d \in Tasks :
        \/ \E m \in Messages : Receive(d, m)
        \/ OnMessage(d)
        \/ FindCorrect(d)

Spec == Init /\ [][Next]_vars

\* on_message line 515-517 and cmd_execute_actions lines 185-188
ExecuteActions(d) ==
    /\ task[d].pc = "resolved"
    /\ MayRun(d)
    /\ IF HasActions(task[d].exec_config[1].actions)
       THEN task' = [task EXCEPT ![d].pc = "loop", ![d].i = 1, ![d].statuses = <<>>]
       ELSE task' = [task EXCEPT ![d].pc = "respond"]
    /\ running' = d
    /\ UNCHANGED <<command_lists, source, closed, channels, call, locked>>

\* one pass of the loop of cmd_execute_actions (lines 190-196), and after the
\* last one line 198 and the test of line 517; src is what a scan of
\* command_path reads at this moment
RunAction(d, src) ==
    /\ task[d].pc = "loop"
    /\ MayRun(d)
    /\ LET actions == task[d].exec_config[1].actions[1]
           action == actions[task[d].i]
           function_name == cmd_translate_action_key(action.name)
           out == CallHandler(function_name, task[d].message[1], action.args,
                              src, command_lists, closed, channels)
           statuses == Append(task[d].statuses, out.status)
       IN /\ source' = IF out.scanned THEN src ELSE source
          /\ command_lists' = out.table
          /\ closed' = out.closed
          /\ channels' = out.channels
          /\ call' = call
          /\ locked' = IF function_name = h_lockdown /\ out.status \in {PyTrue, RAISE}
                        THEN TRUE
                        ELSE IF function_name = h_reload /\ out.status = PyTrue
                        THEN FALSE ELSE locked
          /\ IF out.status = RAISE THEN
                 /\ task' = [task EXCEPT
                        ![d].pc = "aborted",
                        ![d].trace = @ \o out.events \o
                            (IF function_name \in ActionHandlers
                             THEN <<Handler(function_name, RAISE)>>
                             ELSE <<Raised("TypeError")>>)]
                 /\ running' = 0
             ELSE
                 /\ task' = [task EXCEPT
                        ![d].pc = IF task[d].i < Len(actions) THEN "loop"
                                  ELSE IF PyAll(statuses) THEN "respond" ELSE "log",
                        ![d].i = @ + 1,
                        ![d].statuses = statuses,
                        ![d].trace = @ \o out.events \o <<Handler(function_name, out.status)>>]
                 /\ running' = IF out.awaited THEN 0 ELSE d

\* on_message line 518: await self.cmd_send_response(message, response)
Respond(d) ==
    /\ task[d].pc = "respond"
    /\ MayRun(d)
    /\ task' = [task EXCEPT
           ![d].pc = "log",
           ![d].trace = Append(@, cmd_send_response(task[d].exec_config[1].response))]
    /\ running' = 0
    /\ UNCHANGED <<command_lists, source, closed, channels, call, locked>>

\* on_message lines 520-535: the log line, then await message.delete()
Acknowledge(d) ==
    /\ task[d].pc = "log"
    /\ MayRun(d)
    /\ task' = [task EXCEPT ![d].pc = "done", ![d].trace = Append(@, Deleted)]
    /\ running' = 0
    /\ UNCHANGED <<command_lists, source, closed, channels, call, locked>>

\* The Act step onwards: every task either never receives a message or stands
\* at line 515 with a definition registered under the alias its line names.
Resolved(m, config) ==
    [Idle EXCEPT !.pc = "resolved", !.message = Some(m),
                 !.cmd = Some(cmd_array(m)[1]), !.exec_config = Some(config)]

InitAct ==
    /\ source \in ActSources
    /\ command_lists = Scan[source].table
    /\ closed = FALSE
    /\ channels = <<t_lobby>>
    /\ running = 0
    /\ call = NoCall
    /\ locked = FALSE
    /\ task \in [Tasks -> {Idle} \cup
           UNION { { Resolved(m, command_lists[cmd_array(m)[1]][k]) :
                         k \in DOMAIN command_lists[cmd_array(m)[1]] } :
                   m \in {x \in ActMessages : cmd_array(x)[1] \in DOMAIN command_lists} }]

NextAct ==
    \E d \in Tasks :
        \/ ExecuteActions(d)
        \/ \E src \in ActSources : RunAction(d, src)
        \/ Respond(d)
        \/ Acknowledge(d)

SpecAct == InitAct /\ [][NextAct]_vars

\* ------------------------------------------------------------ the loader
\* The definitions a scan of command_path may read, in file order: up to
\* MaxDefs definitions, among them two under one alias with the same tree,
\* two with distinct trees, aliases that differ in case only, a definition
\* registered under two aliases and one that lists an alias twice.
MaxDefs == 3

PongCmd == Command(<<t_Ping>>, Some(EmptyDict), "pong-all", None)
BothCmd == Command(<<t_secret, t_Ping>>, Some(StaffOnly), "both", None)
TwiceCmd == Command(<<t_ping, t_Ping>>, Some(OrNode(<<StaffOnly>>)), "twice", None)

LoadDefs == {PingCmd, PingDupCmd, PongCmd, BothCmd, TwiceCmd}
LoadSources == UNION { [1..n -> LoadDefs] : n \in 0..MaxDefs }

\* __init__ up to line 61: configure_options has run, the table is not built
InitLoad ==
    /\ source = <<>>
    /\ command_lists = EmptyTable
    /\ closed = FALSE
    /\ channels = <<t_lobby>>
    /\ running = 0
    /\ task = [d \in Tasks |-> Idle]
    /\ call = NoCall
    /\ locked = FALSE

\* create_command_library (lines 419-482) over the definitions src; the local
\* collision decides which of the closing log lines is written
Load(src) ==
    /\ LET lib == create_command_library(src)
       IN /\ command_lists' = lib.table
          /\ call' = [fn |-> "create_command_library", collision |-> lib.collision]
    /\ source' = src
    /\ UNCHANGED <<closed, channels, running, task, locked>>

NextLoad == \E src \in LoadSources : Load(src)

SpecLoad == InitLoad /\ [][NextLoad]_vars

\* ----------------------------------------------------------- the resolver
\* The resolver is pure: it is applied to contexts and policy trees drawn
\* from the sets below, call holding the arguments and then the result.
MaxChildren == 2

t_Staff == <<"S","t","a","f","f">>
t_member == <<"m","e","m","b","e","r">>
t_sta == <<"s","t","a">>
t_unbalanced == <<"(","s","t","a">>
t_planet == <<"p","l","a","n","e","t">>

EqualityCmps == {"equals", "exact", "is"}

ResolveContexts ==
    { Msg(Some(t_guild), cat, UserId, roles, Prefix \o t_ping) :
          cat \in {Some(t_general), None},
          roles \in {{}, {t_staff}, {t_Staff, t_member}} }

RoleLeaves ==
    { RoleLeaf(cm, nm) : cm \in EqualityCmps \cup {"regex", "about"},
                         nm \in {t_staff, t_Staff, t_sta, t_unbalanced} }
LocationLeaves ==
    { LocationLeaf(sc, cm, nm) :
          sc \in {t_category, t_channel, t_server, t_planet},
          cm \in {"equals", "regex", "about"},
          nm \in {t_general, t_lobby, t_unbalanced} }
\* a leaf of a type the resolver does not know, and a leaf without a type
UnknownLeaves ==
    { Node(None, None, None, ty, None, Some("equals"), Some(t_staff)) :
          ty \in {Some("banana"), None} }
\* a node with two of the keys and, or, not populated
Ambiguous == Node(Some(<<StaffOnly>>), Some(<<StaffOnly>>), None, None, None, None, None)

ChildPool == {StaffOnly, Ambiguous, NotNode(<<Ambiguous>>), AndNode(<<>>), OrNode(<<>>)}
Children == UNION { [1..n -> ChildPool] : n \in 1..MaxChildren }
Combinators ==
    {AndNode(c) : c \in Children} \cup {OrNode(c) : c \in Children}
        \cup {NotNode(c) : c \in Children}
Nested ==
    {AndNode(<<t>>) : t \in Combinators} \cup {OrNode(<<t>>) : t \in Combinators}
        \cup {NotNode(<<t>>) : t \in Combinators}
ResolveTrees ==
    RoleLeaves \cup LocationLeaves \cup UnknownLeaves
        \cup {Ambiguous, EmptyDict, AndNode(<<>>), OrNode(<<>>), NotNode(<<>>)}
        \cup Combinators \cup Nested

Pending == "pending"
Call(fn, context, resolve) ==
    [fn |-> fn, context |-> context, resolve |-> resolve, result |-> Pending]

InitResolve ==
    /\ source = <<>>
    /\ command_lists = EmptyTable
    /\ closed = FALSE
    /\ channels = <<t_lobby>>
    /\ running = 0
    /\ task = [d \in Tasks |-> Idle]
    /\ locked = FALSE
    /\ call \in
         { Call("cmd_resolve_context", c, r) :
               c \in ResolveContexts, r \in {None} \cup {Some(t) : t \in ResolveTrees} }
         \cup { Call("cmd_resolve_recursive", c, Some(t)) :
               c \in ResolveContexts, t \in ResolveTrees }
         \cup { Call("cmd_resolve_block_role", c, Some(t)) :
               c \in ResolveContexts, t \in RoleLeaves }
         \cup { Call("cmd_resolve_block_location", c, Some(t)) :
               c \in ResolveContexts, t \in LocationLeaves }

Returns(fn, result) ==
    /\ call.fn = fn
    /\ call.result = Pending
    /\ call' = [call EXCEPT !.result = result]
    /\ UNCHANGED <<command_lists, source, closed, channels, running, task, locked>>

ResolveContext ==
    Returns("cmd_resolve_context",
            cmd_resolve_context(call.context,
                                Command(<<t_ping>>, call.resolve, "pong", None)))
ResolveRecursive ==
    Returns("cmd_resolve_recursive", cmd_resolve_recursive(call.context, call.resolve[1]))
ResolveBlockRole ==
    Returns("cmd_resolve_block_role", cmd_resolve_block_role(call.context, call.resolve[1]))
ResolveBlockLocation ==
    Returns("cmd_resolve_block_location",
            cmd_resolve_block_location(call.context, call.resolve[1]))

NextResolve ==
    \/ ResolveContext
    \/ ResolveRecursive
    \/ ResolveBlockRole
    \/ ResolveBlockLocation

SpecResolve == InitResolve /\ [][NextResolve]_vars

\* ------------------------------------------- dispatches during a reload
\* The whole program with create_command_library taken one definition at a
\* time: the table is emptied (line 424) and refilled in place (lines
\* 437-464), so a task that ran in between would read a table in the making.
SnapMessages ==
    { Msg(Some(t_guild), Some(t_general), UserId, {}, Prefix \o c) :
          c \in {t_ping, t_nope} }
SnapActMessages ==
    { Msg(Some(t_guild), Some(t_general), AdminId, {}, Prefix \o c) :
          c \in {t_reload, t_lock} }

\* task d is about to run the reload action for an administrator
AdminReload(d) ==
    /\ task[d].pc = "loop"
    /\ cmd_translate_action_key(
           task[d].exec_config[1].actions[1][task[d].i].name) = h_reload
    /\ task[d].message[1].author \in Administrators

\* action_reload calls create_command_library: lines 424-425
BeginScan(d, src) ==
    /\ AdminReload(d)
    /\ MayRun(d)
    /\ command_lists' = EmptyTable
    /\ call' = [fn |-> "create_command_library", src |-> src, pos |-> 0,
                collision |-> FALSE]
    /\ source' = src
    /\ task' = [task EXCEPT ![d].pc = "scan"]
    /\ running' = d
    /\ UNCHANGED <<closed, channels, locked>>

\* one definition read by the loops of lines 431-464
ScanStep(d) ==
    /\ task[d].pc = "scan"
    /\ MayRun(d)
    /\ call.pos < Len(call.src)
    /\ LET config == call.src[call.pos + 1]
           lib == AddAliases([table |-> command_lists, collision |-> call.collision],
                             config.aliases, config)
       IN /\ command_lists' = lib.table
          /\ call' = [call EXCEPT !.pos = @ + 1, !.collision = lib.collision]
    /\ running' = d
    /\ UNCHANGED <<source, closed, channels, task, locked>>

\* lines 465-482, then action_reload returns True to cmd_execute_actions
EndScan(d) ==
    /\ task[d].pc = "scan"
    /\ MayRun(d)
    /\ call.pos = Len(call.src)
    /\ LET actions == task[d].exec_config[1].actions[1]
           statuses == Append(task[d].statuses, PyTrue)
       IN task' = [task EXCEPT
               ![d].pc = IF task[d].i < Len(actions) THEN "loop"
                         ELSE IF PyAll(statuses) THEN "respond" ELSE "log",
               ![d].i = @ + 1,
               ![d].statuses = statuses,
               ![d].trace = Append(@, Handler(h_reload, PyTrue))]
    /\ call' = NoCall
    /\ locked' = FALSE
    /\ running' = d
    /\ UNCHANGED <<command_lists, source, closed, channels>>

InitSnap ==
    /\ source \in ActSources
    /\ command_lists = Scan[source].table
    /\ closed = FALSE
    /\ channels = <<t_lobby>>
    /\ running = 0
    /\ call = NoCall
    /\ locked = FALSE
    /\ task \in [Tasks -> {Idle} \cup
           UNION { { Resolved(m, command_lists[cmd_array(m)[1]][k]) :
                         k \in DOMAIN command_lists[cmd_array(m)[1]] } :
                   m \in {x \in SnapActMessages : cmd_array(x)[1] \in DOMAIN command_lists} }]

NextSnap ==
    \E d \in Tasks :
        \/ \E m \in SnapMessages : Receive(d, m)
        \/ OnMessage(d)
        \/ FindCorrect(d)
        \/ ExecuteActions(d)
        \/ ~AdminReload(d) /\ RunAction(d, source)
        \/ \E src \in ActSources : BeginScan(d, src)
        \/ ScanStep(d)
        \/ EndScan(d)
        \/ Respond(d)
        \/ Acknowledge(d)

SpecSnap == InitSnap /\ [][NextSnap]_vars

\* ------------------------------------------------- every way a dispatch ends
\* Front end and back end together: some tasks stand at line 515 with a
\* definition of the table, the others receive the lines below and go
\* through on_message from its first line.
FrameMessages ==
    { Msg(None, None, UserId, {}, Prefix \o t_ping),
      Msg(Some(t_guild), Some(t_general), UserId, {}, t_ping),
      Msg(Some(t_guild), Some(t_general), UserId, {}, Prefix),
      Msg(Some(t_guild), Some(t_general), UserId, {}, Prefix \o t_nope),
      Msg(Some(t_guild), Some(t_general), UserId, {}, Prefix \o t_ping) }
FrameActMessages ==
    { Msg(Some(t_guild), Some(t_general), who, {}, Prefix \o c) :
          who \in {AdminId, UserId}, c \in {t_reload, t_lock} }
    \cup { Msg(Some(t_guild), Some(t_general), UserId, {}, Prefix \o c) :
          c \in {t_ping, t_stop} }

InitAll ==
    /\ source \in ActSources
    /\ command_lists = Scan[source].table
    /\ closed = FALSE
    /\ channels = <<t_lobby>>
    /\ running = 0
    /\ call = NoCall
    /\ locked = FALSE
    /\ task \in [Tasks -> {Idle} \cup
           UNION { { Resolved(m, command_lists[cmd_array(m)[1]][k]) :
                         k \in DOMAIN command_lists[cmd_array(m)[1]] } :
                   m \in {x \in FrameActMessages : cmd_array(x)[1] \in DOMAIN command_lists} }]

NextAll ==
    \E d \in Tasks :
        \/ \E m \in FrameMessages : Receive(d, m)
        \/ OnMessage(d)
        \/ FindCorrect(d)
        \/ ExecuteActions(d)
        \/ \E src \in ActSources : RunAction(d, src)
        \/ Respond(d)
        \/ Acknowledge(d)

SpecAll == InitAll /\ [][NextAll]_vars

\* ------------------------------------------------------------ observations
Message(d) == task[d].message[1]
Ended(d) == task[d].pc \in {"returned", "aborted", "done"}
Events(d, kind) == SelectSeq(task[d].trace, LAMBDA e : e.kind = kind)
Sends(d) == Events(d, "send")
Responses(d) == SelectSeq(task[d].trace, LAMBDA e : e.kind = "send" /\ e.what = "response")
Notices(d) == SelectSeq(task[d].trace, LAMBDA e : e.kind = "send" /\ e.what = "notice")
Denials(d) == SelectSeq(task[d].trace, LAMBDA e : e.kind = "send" /\ e.what = "denial")
Acknowledged(d) == Events(d, "delete") # <<>>
NoTrace(d) == Sends(d) = <<>> /\ Events(d, "handler") = <<>> /\ ~Acknowledged(d)

\* the invocation is a command line: issued in a server, marked, with a token
IsCommandLine(m) ==
    /\ ~IsNone(m.guild)
    /\ str_startswith(str_lower(m.content), Prefix)
    /\ cmd_array(m) # <<>>

\* Section 4.1 of the design for the policies of the definitions above: no
\* policy accepts every context, a role leaf with an equality comparator
\* accepts the issuers that hold a role of that name
Accepts(m, candidate) ==
    \/ IsNone(candidate.resolve)
    \/ /\ ~IsNone(candidate.resolve)
       /\ candidate.resolve[1].type = Some("role")
       /\ candidate.resolve[1].cmp \in {Some("equals"), Some("exact"), Some("is")}
       /\ \E r \in m.roles : Some(r) = candidate.resolve[1].name

Accepting(m, table) ==
    IF cmd_array(m)[1] \in DOMAIN table
    THEN {k \in DOMAIN table[cmd_array(m)[1]] : Accepts(m, table[cmd_array(m)[1]][k])}
    ELSE {}

\* ----------------------------------------------------------------- claims

\* C1 (as claimed): with the table holding only the "ping" definition, every
\* in-server invocation of the line "?ping" ends with exactly one response
\* "pong", the invocation deleted, and no error.
C1_PingAnswered ==
    \A d \in Tasks :
        (/\ source = SrcPing
         /\ Ended(d)
         /\ ~IsNone(Message(d).guild)
         /\ Message(d).content = Prefix \o t_ping)
        => /\ task[d].pc = "done"
           /\ Sends(d) = <<Send("response", "pong")>>
           /\ Acknowledged(d)

\* C2: a command line whose alias is known but that no candidate accepts, and
\* a command line whose alias is unknown, both end without any send, without
\* any action run and without the invocation deleted.
C2_IgnoredAlike ==
    \A d \in Tasks :
        (/\ Ended(d)
         /\ IsCommandLine(Message(d))
         /\ Accepting(Message(d), command_lists) = {})
        => NoTrace(d)

\* a known alias none of whose candidates accepts the issuer has been dispatched
C2_Witness ==
    \E d \in Tasks :
        /\ Ended(d)
        /\ IsCommandLine(Message(d))
        /\ cmd_array(Message(d))[1] \in DOMAIN command_lists
        /\ Accepting(Message(d), command_lists) = {}

\* C3 (as claimed): with the single definition "secret" gated on the role
\* "staff", an invocation is answered and acknowledged iff the issuer holds
\* the role, and otherwise leaves no trace.
C3_StaffOnly ==
    \A d \in Tasks :
        (/\ source = SrcSecret
         /\ Ended(d)
         /\ IsCommandLine(Message(d))
         /\ cmd_array(Message(d))[1] = t_secret)
        => IF t_staff \in Message(d).roles
           THEN Responses(d) = <<Send("response", "classified")>> /\ Acknowledged(d)
           ELSE NoTrace(d)

\* C4 (as claimed): when two or more candidates accept, the dispatch runs no
\* action, sends exactly one failure notice and no response, and does not
\* delete the invocation.
C4_AmbiguousNotice ==
    \A d \in Tasks :
        (/\ Ended(d)
         /\ IsCommandLine(Message(d))
         /\ Cardinality(Accepting(Message(d), command_lists)) >= 2)
        => /\ Events(d, "handler") = <<>>
           /\ Len(Notices(d)) = 1
           /\ Responses(d) = <<>>
           /\ ~Acknowledged(d)

\* task d has just run the handler named h, which ended with status
JustRan(d, h, status) ==
    /\ Len(task'[d].trace) > Len(task[d].trace)
    /\ task'[d].trace[Len(task'[d].trace)] = Handler(h, status)

\* C5 (as claimed): a reload by an administrator whose scan meets a collision
\* leaves the table that was live before it.
C5_CollisionKeepsTable ==
    [][\A d \in Tasks :
          (JustRan(d, h_reload, PyTrue) /\ Scan[source'].collision)
          => command_lists' = command_lists]_vars

\* C6 (as claimed): once an administrator's lockdown has run, the table holds
\* no alias but "reload", which keeps its candidates.
C6_LockdownPrunes ==
    [][\A d \in Tasks :
          (JustRan(d, h_lockdown, PyTrue) \/ JustRan(d, h_lockdown, RAISE))
          => /\ DOMAIN command_lists' \subseteq {t_reload}
             /\ \A k \in DOMAIN command_lists' : command_lists'[k] = command_lists[k]]_vars

\* the handlers gated on the administrator set
Gated == {h_reload, h_lockdown, h_shutdown}

\* C7 (as claimed): a dispatch in which a non-administrator invoked a gated
\* action sends one denial for it and no response, and ends with the
\* invocation deleted.
C7_DeniedStillAcknowledged ==
    \A d \in Tasks :
        (/\ Ended(d)
         /\ Message(d).author \notin Administrators
         /\ \E k \in DOMAIN task[d].trace :
                task[d].trace[k].kind = "handler" /\ task[d].trace[k].what \in Gated)
        => /\ Responses(d) = <<>>
           /\ Len(Denials(d)) =
                  Len(SelectSeq(task[d].trace,
                                LAMBDA e : e.kind = "handler" /\ e.what \in Gated))
           /\ Acknowledged(d)

\* the verdict of the pipeline of task d is success
VerdictSuccess(d) ==
    \/ ~HasActions(task[d].exec_config[1].actions)
    \/ /\ Len(task[d].statuses) = Len(task[d].exec_config[1].actions[1])
       /\ \A k \in DOMAIN task[d].statuses : task[d].statuses[k] = PyTrue

\* C8: for a resolved definition, its response is sent (once, and that
\* response) iff the verdict of the action pipeline is success; a failed
\* per-action verdict means no response.
C8_ResponseIffSuccess ==
    \A d \in Tasks :
        task[d].pc # "idle" =>
            /\ Responses(d) # <<>> =>
                   /\ VerdictSuccess(d)
                   /\ Responses(d) = <<cmd_send_response(task[d].exec_config[1].response)>>
            /\ (task[d].pc \in {"log", "done"} /\ VerdictSuccess(d)) => Responses(d) # <<>>
            /\ (\E k \in DOMAIN task[d].statuses : task[d].statuses[k] # PyTrue)
                   => Responses(d) = <<>>

\* one dispatch ran actions and was answered, another ran actions, failed one
\* and was not answered
C8_Witness ==
    \E d, e \in Tasks :
        /\ task[d].pc = "done" /\ task[d].statuses # <<>> /\ Responses(d) # <<>>
        /\ task[e].pc = "done" /\ task[e].statuses # <<>> /\ Responses(e) = <<>>

\* C9 (as claimed): every dispatch that reached the Act step ends with the
\* invocation deleted, whatever the verdict.
C9_ActedIsAcknowledged ==
    \A d \in Tasks :
        (Ended(d) /\ ~IsNone(task[d].exec_config)) => Acknowledged(d)

\* C10 (as claimed): the pipeline runs every action of the list once, in list
\* order, whatever the earlier verdicts.
C10_EveryActionRuns ==
    \A d \in Tasks :
        (Ended(d) /\ ~IsNone(task[d].exec_config)
                  /\ HasActions(task[d].exec_config[1].actions))
        => LET actions == task[d].exec_config[1].actions[1]
               ran == Events(d, "handler")
           IN /\ Len(ran) = Len(actions)
              /\ \A k \in DOMAIN ran :
                     ran[k].what = cmd_translate_action_key(actions[k].name)
              /\ Len(task[d].statuses) = Len(actions)

\* the actions of the list of task d that name no handler of the client
Missing(d) ==
    {k \in DOMAIN task[d].exec_config[1].actions[1] :
        cmd_translate_action_key(task[d].exec_config[1].actions[1][k].name)
            \notin ActionHandlers}

\* C11 (as claimed): an action that names no handler gives a failure verdict
\* for that action as a value and does not abort the pipeline: every action of
\* the list gets a status, the overall verdict is false, no response is sent,
\* nothing is raised and the invocation is deleted.
C11_MissingHandlerIsAFailure ==
    \A d \in Tasks :
        (/\ Ended(d)
         /\ ~IsNone(task[d].exec_config)
         /\ HasActions(task[d].exec_config[1].actions)
         /\ Missing(d) # {})
        => /\ Len(task[d].statuses) = Len(task[d].exec_config[1].actions[1])
           /\ \A k \in Missing(d) : task[d].statuses[k] = PyFalse
           /\ Events(d, "raise") = <<>>
           /\ Responses(d) = <<>>
           /\ Acknowledged(d)

\* the registrations of a scan: definition i of src under its j-th alias
Registrations(src) ==
    UNION { {<<i, j>> : j \in DOMAIN src[i].aliases} : i \in DOMAIN src }
AliasOf(src, p) == str_lower(src[p[1]].aliases[p[2]])

\* some alias receives two registrations with structurally identical trees
\* (an absent tree is identical to an absent tree only)
Clash(src) ==
    \E p, q \in Registrations(src) :
        /\ p # q
        /\ AliasOf(src, p) = AliasOf(src, q)
        /\ src[p[1]].resolve = src[q[1]].resolve

\* C12: a load flags a collision iff some alias, compared lowercased, receives
\* two definitions with structurally identical resolve trees; when the
\* definitions that share an alias all carry distinct trees, no collision is
\* flagged and every one of them is a candidate for the alias.
C12_CollisionIffSameTree ==
    call.fn = "create_command_library" =>
        /\ call.collision <=> Clash(source)
        /\ ~Clash(source) =>
               \A p \in Registrations(source) :
                   /\ AliasOf(source, p) \in DOMAIN command_lists
                   /\ \E k \in DOMAIN command_lists[AliasOf(source, p)] :
                          command_lists[AliasOf(source, p)][k] = source[p[1]]

\* two loads have happened in turn: one flagged a collision, the other kept
\* two definitions with distinct trees under one alias and flagged none
C12_Witness ==
    /\ call.fn = "create_command_library"
    /\ call.collision
    /\ \E alias \in DOMAIN command_lists : Len(command_lists[alias]) >= 2

\* C13: in every reachable state, whatever loads, reloads, lockdowns and
\* dispatches came before, no alias of the live table has two candidates with
\* structurally identical resolve trees.
C13_NoTwinCandidates ==
    \A alias \in DOMAIN command_lists :
        \A i, j \in DOMAIN command_lists[alias] :
            i # j => command_lists[alias][i].resolve # command_lists[alias][j].resolve

\* an administrator's reload has scanned definitions that collide, and an
\* administrator's lockdown has run
C13_Witness ==
    /\ Scan[source].collision
    /\ \E d \in Tasks : \E k \in DOMAIN task[d].trace :
           task[d].trace[k] = Handler(h_reload, PyTrue)
    /\ locked

\* the call observed is a returned call of fn
Returned(fn) == call.fn = fn /\ call.result # Pending
\* what the resolver gives for a child node in the context of the call
Child(n) == cmd_resolve_recursive(call.context, n)

\* C14 (as claimed): a combinator node over a non-empty list of children
\* evaluates to a truth value: And to whether all children resolve true, Or to
\* whether at least one does, Not to whether none does.
C14_Combinators ==
    (/\ Returned("cmd_resolve_recursive")
     /\ Cardinality({k \in {"and", "or", "not"} : ~IsNone(call.resolve[1][k])}) = 1
     /\ \A k \in {"and", "or", "not"} :
            ~IsNone(call.resolve[1][k]) => call.resolve[1][k][1] # <<>>)
    => LET node == call.resolve[1]
       IN /\ ~IsNone(node.and) =>
                 call.result = Bool(\A k \in DOMAIN node.and[1] : Child(node.and[1][k]) = Yes)
          /\ ~IsNone(node.or) =>
                 call.result = Bool(\E k \in DOMAIN node.or[1] : Child(node.or[1][k]) = Yes)
          /\ ~IsNone(node.not) =>
                 call.result = Bool(~ \E k \in DOMAIN node.not[1] : Child(node.not[1][k]) = Yes)

\* a combinator node with an empty list of children
EmptyAnd == AndNode(<<>>)
EmptyOr == OrNode(<<>>)

\* C15 (as claimed): And([]) resolves true and Or([]) resolves false, as the
\* whole tree of a definition, as a node, and as the only child of a
\* combinator (whose value then follows from its child's).
C15_VacuousRule ==
    /\ Returned("cmd_resolve_context") =>
           /\ call.resolve = Some(EmptyAnd) => call.result = Yes
           /\ call.resolve = Some(EmptyOr) => call.result = No
    /\ Returned("cmd_resolve_recursive") =>
           /\ call.resolve[1] \in {EmptyAnd, AndNode(<<EmptyAnd>>), OrNode(<<EmptyAnd>>),
                                   NotNode(<<EmptyOr>>)}
                  => call.result = Yes
           /\ call.resolve[1] \in {EmptyOr, AndNode(<<EmptyOr>>), OrNode(<<EmptyOr>>),
                                   NotNode(<<EmptyAnd>>)}
                  => call.result = No

\* the node is one of the configuration errors the resolver is to reject
KnownCmps == EqualityCmps \cup {"expr", "like", "regex"}
ConfigError(node) ==
    \/ Cardinality({k \in {"and", "or", "not"} : ListTruthy(node[k])}) > 1
    \/ /\ \A k \in {"and", "or", "not"} : IsNone(node[k])
       /\ \/ node.type \notin {Some("location"), Some("role")}
          \/ /\ node.type = Some("location")
             /\ ~IsNone(node.scope)
             /\ str_lower(node.scope[1]) \notin {t_category, t_channel, t_server}
          \/ /\ ~IsNone(node.cmp)
             /\ node.cmp[1] \notin KnownCmps
          \/ /\ ~IsNone(node.cmp)
             /\ node.cmp[1] \in {"expr", "like", "regex"}
             /\ ~IsNone(node.name)
             /\ ~ParenDepthOk(node.name[1], 0)

\* C16 (as claimed): a node with several of the keys and/or/not populated, a
\* leaf of unknown type, a location leaf of unknown scope, a leaf with an
\* unknown comparator and a regex leaf whose pattern does not compile each
\* resolve to false, as a returned value, in every context.
C16_FailsClosed ==
    \A fn \in {"cmd_resolve_recursive", "cmd_resolve_block_role",
               "cmd_resolve_block_location"} :
        (Returned(fn) /\ ConfigError(call.resolve[1])) => call.result = No

\* C17: cmd_resolve_block_role with an equality comparator returns true iff
\* the pattern is, character for character, one of the issuer's role names;
\* with no roles it returns false.
C17_RoleEquality ==
    (/\ Returned("cmd_resolve_block_role")
     /\ call.resolve[1].cmp[1] \in EqualityCmps)
    => /\ call.result = Bool(call.resolve[1].name[1] \in call.context.roles)
       /\ call.context.roles = {} => call.result = No

\* an issuer holding two roles, one of them named by the pattern, was accepted
C17_Witness ==
    /\ Returned("cmd_resolve_block_role")
    /\ call.resolve[1].cmp[1] \in EqualityCmps
    /\ Cardinality(call.context.roles) = 2
    /\ call.result = Yes

\* the table is the whole result of a scan
Complete(table) == \E src \in ActSources : table = Scan[src].table

\* C18: while reloads and lockdowns by administrators go on, every dispatch
\* looks its alias up and filters the candidates against a complete table,
\* the one before the change or the one after it, and the table does not
\* change between its lookup and its filtering.
C18_ConsistentTable ==
    [][\A d \in Tasks :
          /\ (task[d].pc \in {"start", "find"} /\ task'[d].pc # task[d].pc)
                 => Complete(command_lists)
          /\ (task[d].pc = "find" /\ task'[d].pc = "find")
                 => command_lists' = command_lists]_vars

\* one dispatch was looked up and filtered, another ran an administrator's
\* reload to its end, a lockdown has run
C18_Witness ==
    \E d, e \in Tasks :
        /\ task[d].pc = "aborted"
        /\ ~IsNone(task[d].cmd)
        /\ IsNone(task[d].exec_config)
        /\ \E k \in DOMAIN task[e].trace : task[e].trace[k] = Handler(h_reload, PyTrue)
        /\ \E f \in Tasks : \E k \in DOMAIN task[f].trace :
               task[f].trace[k].kind = "handler" /\ task[f].trace[k].what = h_lockdown

\* in this step task d runs an action handler or sends its response
Executes(d) ==
    \E k \in DOMAIN task'[d].trace :
        /\ k > Len(task[d].trace)
        /\ \/ task'[d].trace[k].kind = "handler"
           \/ /\ task'[d].trace[k].kind = "send"
              /\ task'[d].trace[k].what \in {"response", "embed"}

\* C19 (as claimed): once an administrator's lockdown has run and until an
\* administrator's reload completes, no dispatch of an alias other than
\* "reload" runs an action or sends its response, the dispatches that were
\* already under way included.
C19_LockdownHolds ==
    [][\A d \in Tasks :
          (locked /\ ~IsNone(task[d].cmd) /\ task[d].cmd[1] # t_reload)
          => ~Executes(d)]_vars

\* C20 (as claimed): once the shutdown action of an administrator has closed
\* the transport, the dispatch that ran it runs no later action of its list,
\* sends nothing and does not delete the invocation: after the close its
\* trace holds the return of the shutdown handler and nothing else.
C20_ShutdownEnds ==
    \A d \in Tasks :
        \A k \in DOMAIN task[d].trace :
            task[d].trace[k].kind = "close" =>
                \A j \in DOMAIN task[d].trace :
                    j > k => /\ j = k + 1
                             /\ task[d].trace[j].kind = "handler"
                             /\ task[d].trace[j].what = h_shutdown

C22_BareMarkerIgnored ==
    \A d \in Tasks :
        (/\ Ended(d)
         /\ ~IsNone(Message(d).guild)
         /\ str_startswith(str_lower(Message(d).content), Prefix)
         /\ cmd_array(Message(d)) = <<>>)
        => /\ task[d].pc = "returned"
           /\ NoTrace(d)
           /\ Events(d, "raise") = <<>>

====
